---- MODULE Spec2Model ----
(***************************************************************************)
(* A top-to-bottom run of the two example notebooks of the repository:     *)
(*   "lshf": Scalability of Approximate Nearest Neighbors                  *)
(*   "gpr" : Gaussian Processes Regression Basic Introductory Example      *)
(* Numbers that are floats in the notebooks are exact rationals <<n, d>>   *)
(* here; a standard deviation is kept as the variance under a root.        *)
(* The clock is a counter of ticks; a library call takes whole ticks.      *)
(***************************************************************************)
EXTENDS Integers, Sequences, FiniteSets

\* ---- bounds (the notebooks' parameter literals, scaled down) ----
n_samples_min == 3
n_samples_max == 4
n_queries == 2
n_steps == 2
n_iter == 2
n_neighbors == 2
MaxDur == 2
MeshLen == 2

\* ---- rationals ----
RECURSIVE GCD(_, _)
GCD(a, b) == IF b = 0 THEN a ELSE GCD(b, a % b)

Abs(n) == IF n < 0 THEN -n ELSE n

Norm(n, d) == LET g == GCD(Abs(n), Abs(d))
                  s == IF d < 0 THEN -1 ELSE 1
              IN  <<(s * n) \div g, (s * d) \div g>>

R(n) == <<n, 1>>
RAdd(a, b) == Norm(a[1] * b[2] + b[1] * a[2], a[2] * b[2])
RSub(a, b) == Norm(a[1] * b[2] - b[1] * a[2], a[2] * b[2])
RMul(a, b) == Norm(a[1] * b[1], a[2] * b[2])
RDiv(a, b) == Norm(a[1] * b[2], a[2] * b[1])
RLess(a, b) == a[1] * b[2] < b[1] * a[2]
RLeq(a, b) == a[1] * b[2] <= b[1] * a[2]

RECURSIVE RSum(_)
RSum(s) == IF s = <<>> THEN R(0) ELSE RAdd(s[1], RSum(Tail(s)))

RECURSIVE Pow(_, _)
Pow(b, e) == IF e = 0 THEN 1 ELSE b * Pow(b, e - 1)

\* ---- numpy ----
Mean(s) == RDiv(RSum(s), R(Len(s)))

Std(s) == LET m == Mean(s)
          IN  [sqrt |-> Mean([i \in 1..Len(s) |->
                               RMul(RSub(s[i], m), RSub(s[i], m))])]

\* np.array(a) / np.array(b), elementwise
ArrayDivide(a, b) == [i \in 1..Len(a) |-> RDiv(R(a[i]), R(b[i]))]

ToFloats(s) == [i \in 1..Len(s) |-> R(s[i])]


\* variant: the overlap is taken over the union of the two arrays
In1dMean_OverUnion(ar1, ar2) ==
    Norm(Cardinality(ar1 \cap ar2), Cardinality(ar1 \cup ar2))

\* np.in1d(ar1, ar2).mean() on index arrays without repeated entries
In1dMean(ar1, ar2) == Norm(Cardinality(ar1 \cap ar2), Cardinality(ar1))

\* np.logspace(log10(a), log10(b), n).astype(np.int)
logspace_int(a, b, n) ==
    [k \in 1..n |->
        IF n = 1 THEN a
        ELSE CHOOSE v \in a..b :
                 /\ Pow(v, n - 1) <= Pow(a, n - k) * Pow(b, k - 1)
                 /\ Pow(v + 1, n - 1) > Pow(a, n - k) * Pow(b, k - 1)]

\* np.linspace(a, b, n) for rationals a, b and n >= 2
linspace(a, b, n) ==
    [k \in 1..n |-> RAdd(a, RMul(R(k - 1), RDiv(RSub(b, a), R(n - 1))))]

\* np.atleast_2d(v).T : a column, one row per entry
Column(v) == [i \in 1..Len(v) |-> <<v[i]>>]

Reverse(s) == [i \in 1..Len(s) |-> s[Len(s) + 1 - i]]

KSubsets(S, k) == {T \in SUBSET S : Cardinality(T) = k}

\* ---- parameters of the study ----
n_samples_values == logspace_int(n_samples_min, n_samples_max, n_steps)

\* make_blobs: n_samples_max + n_queries points, each point one coordinate
make_blobs == [i \in 1..(n_samples_max + n_queries) |-> i]

queries == SubSeq(make_blobs, 1, n_queries)
index_data == SubSeq(make_blobs, n_queries + 1, Len(make_blobs))

\* what a kneighbors call can take, in clock ticks: at least one
Durations == 1..MaxDur

\* ---- estimators ----
Unfitted == [fitted |-> FALSE, X |-> <<>>]
Fit(Xd) == [fitted |-> TRUE, X |-> Xd]

Dist(p, q) == Abs(p - q)

\* NearestNeighbors(algorithm='brute').kneighbors: the n_neighbors rows of
\* the fitted data nearest to the query, as a set of row numbers; asking for
\* more neighbors than there are rows raises instead
BruteKneighbors(est, q) ==
    CHOOSE S \in KSubsets(1..Len(est.X), n_neighbors) :
        \A j \in S : \A m \in (1..Len(est.X)) \ S :
            \/ Dist(est.X[j], q) < Dist(est.X[m], q)
            \/ Dist(est.X[j], q) = Dist(est.X[m], q) /\ j < m

\* LSHForest.kneighbors: some n_neighbors rows of the fitted data
LSHKneighbors(est) == KSubsets(1..Len(est.X), n_neighbors)

\* ---- Gaussian process notebook ----
F(v) == [xsinx |-> v, noise |-> FALSE]
Noisy(yv) == [xsinx |-> yv.xsinx, noise |-> TRUE]

data_to_plotly(a) == [i \in 1..Len(a) |-> a[i][1]]

XNoiseless == Column(ToFloats(<<1, 3, 5, 6, 7, 8>>))
XNoisy == Column(linspace(<<1, 10>>, <<99, 10>>, 20))
Mesh == Column(linspace(R(0), R(10), MeshLen))

PredVals == {R(0), R(1)}
SigmaVals == {R(0), R(1)}
Arrays(n, V) == [1..n -> V]

Scatter(nm, xs, ys, err) == [name |-> nm, x |-> xs, y |-> ys, arrayminus |-> err]

\* p4 of the plot cells
ConfidenceTrace(xm, yp, sg) ==
    Scatter("95% confidence interval",
            data_to_plotly(xm \o Reverse(xm)),
            [i \in 1..Len(yp) |-> RSub(yp[i], RMul(<<49, 25>>, sg[i]))],
            <<>>)

GprFigure(xm, Xt, yt, yp, sg, withErr) ==
    LET p1 == Scatter("f(x) = xsin(x)", data_to_plotly(xm),
                      [i \in 1..Len(xm) |-> F(xm[i][1])], <<>>)
        p2 == Scatter("Observations", data_to_plotly(Xt), yt,
                      IF withErr THEN <<"dy">> ELSE <<>>)
        p3 == Scatter("Prediction", data_to_plotly(xm), yp, <<>>)
        p4 == ConfidenceTrace(xm, yp, sg)
    IN  <<p3, p4, p1, p2>>

\* ---- state ----
VARIABLES notebook, pc, failedAt, now, execCount,
          all_data, X, lshf, nbrs, step, iter,
          query, t0, exact_neighbors, approx_neighbors,
          time_exact, time_approx, accuracy,
          average_times_exact, average_times_approx, std_times_approx,
          accuracies, std_accuracies, average_speedups, std_speedups,
          x, y, gp, y_pred, sigma,
          fig, plotted,
          exactCall, approxCall, durExact, durApprox

control == <<notebook, pc, failedAt, execCount>>
estimators == <<lshf, nbrs>>
locals == <<query, t0, exact_neighbors, approx_neighbors>>
lists == <<time_exact, time_approx, accuracy>>
metrics == <<average_times_exact, average_times_approx, std_times_approx,
             accuracies, std_accuracies, average_speedups, std_speedups>>
gpr == <<x, y, gp, y_pred, sigma>>
calls == <<exactCall, approxCall, durExact, durApprox>>
vars == <<control, now, all_data, X, estimators, step, iter, locals, lists,
          metrics, gpr, fig, plotted, calls>>

LshfStmts == {"generate", "loop", "fit_lshf", "fit_nbrs", "pick_query",
              "t0_exact", "query_exact", "append_exact",
              "t0_approx", "query_approx", "append_approx", "append_accuracy",
              "collect", "plot1_build", "plot1_iplot", "plot2_build",
              "plot2_iplot", "plot3_build", "plot3_iplot", "publish"}
GprStmts == {"gpr_data1", "gpr_fit1", "gpr_predict1", "gpr_build1",
             "gpr_iplot1", "gpr_data2", "gpr_fit2", "gpr_predict2",
             "gpr_build2", "gpr_iplot2", "gpr_publish"}
Stmts == LshfStmts \cup GprStmts

\* statements that call into scikit-learn, plotly or publisher
CallSites == {"generate", "fit_lshf", "fit_nbrs", "query_exact",
              "query_approx", "plot1_build", "plot1_iplot", "plot2_build",
              "plot2_iplot", "plot3_build", "plot3_iplot", "publish",
              "gpr_fit1", "gpr_predict1", "gpr_build1", "gpr_iplot1",
              "gpr_fit2", "gpr_predict2", "gpr_build2", "gpr_iplot2",
              "gpr_publish"}

NoCall == [q |-> 0, start |-> 0, end |-> 0, X |-> <<>>]

Init ==
    /\ notebook \in {"lshf", "gpr"}
    /\ pc = IF notebook = "lshf" THEN "generate" ELSE "gpr_data1"
    /\ failedAt = "none"
    /\ now = 0
    /\ execCount = [s \in Stmts |-> 0]
    /\ all_data = <<>>
    /\ X = <<>>
    /\ lshf = Unfitted
    /\ nbrs = Unfitted
    /\ step = 0
    /\ iter = 0
    /\ query = 0
    /\ t0 = 0
    /\ exact_neighbors = {}
    /\ approx_neighbors = {}
    /\ time_exact = <<>>
    /\ time_approx = <<>>
    /\ accuracy = <<>>
    /\ average_times_exact = <<>>
    /\ average_times_approx = <<>>
    /\ std_times_approx = <<>>
    /\ accuracies = <<>>
    /\ std_accuracies = <<>>
    /\ average_speedups = <<>>
    /\ std_speedups = <<>>
    /\ x = <<>>
    /\ y = <<>>
    /\ gp = Unfitted
    /\ y_pred = <<>>
    /\ sigma = <<>>
    /\ fig = <<>>
    /\ plotted = <<>>
    /\ exactCall = NoCall
    /\ approxCall = NoCall
    /\ durExact = <<>>
    /\ durApprox = <<>>

\* the statement at label from runs to completion; control moves to label to
Goto(from, to) ==
    /\ pc = from
    /\ pc' = to
    /\ execCount' = [execCount EXCEPT ![from] = @ + 1]
    /\ UNCHANGED <<notebook, failedAt>>

\* ======== Scalability of Approximate Nearest Neighbors ========

\* cell "Calculations": parameters, make_blobs, empty metric lists
Generate ==
    /\ Goto("generate", "loop")
    /\ all_data' = make_blobs
    /\ average_times_exact' = <<>>
    /\ average_times_approx' = <<>>
    /\ std_times_approx' = <<>>
    /\ accuracies' = <<>>
    /\ std_accuracies' = <<>>
    /\ average_speedups' = <<>>
    /\ std_speedups' = <<>>
    /\ UNCHANGED <<now, X, estimators, step, iter, locals, lists, gpr, fig,
                   plotted, calls>>

\* for n_samples in n_samples_values: X = index_data[:n_samples]
LoopNext ==
    /\ step < n_steps
    /\ Goto("loop", "fit_lshf")
    /\ step' = step + 1
    /\ X' = SubSeq(SubSeq(all_data, n_queries + 1, Len(all_data)),
                   1, n_samples_values[step + 1])
    /\ UNCHANGED <<now, all_data, estimators, iter, locals, lists, metrics,
                   gpr, fig, plotted, calls>>

\* lshf = LSHForest(...).fit(X)
FitLshf ==
    /\ Goto("fit_lshf", "fit_nbrs")
    /\ lshf' = Fit(X)
    /\ now' = now + 1
    /\ UNCHANGED <<all_data, X, nbrs, step, iter, locals, lists, metrics,
                   gpr, fig, plotted, calls>>


\* variant: the brute-force index is fitted on all of index_data
FitNbrs_AllData ==
    /\ Goto("fit_nbrs", "pick_query")
    /\ nbrs' = Fit(SubSeq(all_data, n_queries + 1, Len(all_data)))
    /\ now' = now + 1
    /\ time_approx' = <<>>
    /\ time_exact' = <<>>
    /\ accuracy' = <<>>
    /\ iter' = 0
    /\ durExact' = <<>>
    /\ durApprox' = <<>>
    /\ UNCHANGED <<all_data, X, lshf, step, locals, metrics, gpr, fig,
                   plotted, exactCall, approxCall>>

\* nbrs = NearestNeighbors(...).fit(X); the three per-size lists are emptied
FitNbrs ==
    /\ Goto("fit_nbrs", "pick_query")
    /\ nbrs' = Fit(X)
    /\ now' = now + 1
    /\ time_approx' = <<>>
    /\ time_exact' = <<>>
    /\ accuracy' = <<>>
    /\ iter' = 0
    /\ durExact' = <<>>
    /\ durApprox' = <<>>
    /\ UNCHANGED <<all_data, X, lshf, step, locals, metrics, gpr, fig,
                   plotted, exactCall, approxCall>>


\* variant: the inner loop runs once more than n_iter times
PickQuery_OffByOne ==
    /\ iter <= n_iter
    /\ Goto("pick_query", "t0_exact")
    /\ iter' = iter + 1
    /\ \E r \in 1..n_queries : query' = SubSeq(all_data, 1, n_queries)[r]
    /\ UNCHANGED <<now, all_data, X, estimators, step, t0, exact_neighbors,
                   approx_neighbors, lists, metrics, gpr, fig, plotted, calls>>

\* for i in range(n_iter): query = queries[[rng.randint(0, n_queries)]]
PickQuery ==
    /\ iter < n_iter
    /\ Goto("pick_query", "t0_exact")
    /\ iter' = iter + 1
    /\ \E r \in 1..n_queries : query' = SubSeq(all_data, 1, n_queries)[r]
    /\ UNCHANGED <<now, all_data, X, estimators, step, t0, exact_neighbors,
                   approx_neighbors, lists, metrics, gpr, fig, plotted, calls>>


\* variant: t0 keeps the value it had
ReadClock_Stale(from, to) ==
    /\ Goto(from, to)
    /\ UNCHANGED <<now, all_data, X, estimators, step, iter, locals, lists,
                   metrics, gpr, fig, plotted, calls>>

\* t0 = time.time()
ReadClock(from, to) ==
    /\ Goto(from, to)
    /\ t0' = now
    /\ UNCHANGED <<now, all_data, X, estimators, step, iter, query,
                   exact_neighbors, approx_neighbors, lists, metrics, gpr,
                   fig, plotted, calls>>

ReadT0Exact == ReadClock("t0_exact", "query_exact")

\* exact_neighbors = nbrs.kneighbors(query, return_distance=False)
QueryExact ==
    /\ Goto("query_exact", "append_exact")
    /\ n_neighbors <= Len(nbrs.X)
    /\ \E d \in Durations :
          /\ now' = now + d
          /\ exactCall' = [q |-> query, start |-> now, end |-> now + d,
                           X |-> nbrs.X]
          /\ durExact' = Append(durExact, d)
    /\ exact_neighbors' = BruteKneighbors(nbrs, query)
    /\ UNCHANGED <<all_data, X, estimators, step, iter, query, t0,
                   approx_neighbors, lists, metrics, gpr, fig, plotted,
                   approxCall, durApprox>>

\* time_exact.append(time.time() - t0)
AppendExact ==
    /\ Goto("append_exact", "t0_approx")
    /\ time_exact' = Append(time_exact, now - t0)
    /\ UNCHANGED <<now, all_data, X, estimators, step, iter, locals,
                   time_approx, accuracy, metrics, gpr, fig, plotted, calls>>


\* variant: t0 is not read again before the approximate query
ReadT0Approx_Missing ==
    /\ Goto("t0_approx", "query_approx")
    /\ UNCHANGED <<now, all_data, X, estimators, step, iter, locals, lists,
                   metrics, gpr, fig, plotted, calls>>

ReadT0Approx == ReadClock("t0_approx", "query_approx")

\* approx_neighbors = lshf.kneighbors(query, return_distance=False)
QueryApprox ==
    /\ Goto("query_approx", "append_approx")
    /\ n_neighbors <= Len(lshf.X)
    /\ \E d \in Durations :
          /\ now' = now + d
          /\ approxCall' = [q |-> query, start |-> now, end |-> now + d,
                            X |-> lshf.X]
          /\ durApprox' = Append(durApprox, d)
    /\ approx_neighbors' \in LSHKneighbors(lshf)
    /\ UNCHANGED <<all_data, X, estimators, step, iter, query, t0,
                   exact_neighbors, lists, metrics, gpr, fig, plotted,
                   exactCall, durExact>>

\* time_approx.append(time.time() - t0)
AppendApprox ==
    /\ Goto("append_approx", "append_accuracy")
    /\ time_approx' = Append(time_approx, now - t0)
    /\ UNCHANGED <<now, all_data, X, estimators, step, iter, locals,
                   time_exact, accuracy, metrics, gpr, fig, plotted, calls>>

\* accuracy.append(np.in1d(approx_neighbors, exact_neighbors).mean())
AppendAccuracy ==
    /\ Goto("append_accuracy", "pick_query")
    /\ accuracy' = Append(accuracy, In1dMean(approx_neighbors, exact_neighbors))
    /\ now' = now + 1
    /\ UNCHANGED <<all_data, X, estimators, step, iter, locals, time_exact,
                   time_approx, metrics, gpr, fig, plotted, calls>>

\* range(n_iter) is exhausted
InnerExit ==
    /\ iter = n_iter
    /\ pc = "pick_query"
    /\ pc' = "collect"
    /\ UNCHANGED <<notebook, failedAt, execCount, now, all_data, X,
                   estimators, step, iter, locals, lists, metrics, gpr, fig,
                   plotted, calls>>


\* variant: the speedup is approximate time / exact time
CollectMetrics_InverseRatio ==
    /\ Goto("collect", "loop")
    /\ LET speedup == ArrayDivide(time_approx, time_exact)
       IN  /\ accuracies' = Append(accuracies, Mean(accuracy))
           /\ std_accuracies' = Append(std_accuracies, Std(accuracy))
           /\ average_times_exact' =
                  Append(average_times_exact, Mean(ToFloats(time_exact)))
           /\ average_times_approx' =
                  Append(average_times_approx, Mean(ToFloats(time_approx)))
           /\ std_times_approx' =
                  Append(std_times_approx, Std(ToFloats(time_approx)))
           /\ average_speedups' = Append(average_speedups, Mean(speedup))
           /\ std_speedups' = Append(std_speedups, Std(speedup))
    /\ UNCHANGED <<now, all_data, X, estimators, step, iter, locals, lists,
                   gpr, fig, plotted, calls>>

\* variant: std_speedups is not appended to
CollectMetrics_MissingAppend ==
    /\ Goto("collect", "loop")
    /\ LET speedup == ArrayDivide(time_exact, time_approx)
       IN  /\ accuracies' = Append(accuracies, Mean(accuracy))
           /\ std_accuracies' = Append(std_accuracies, Std(accuracy))
           /\ average_times_exact' =
                  Append(average_times_exact, Mean(ToFloats(time_exact)))
           /\ average_times_approx' =
                  Append(average_times_approx, Mean(ToFloats(time_approx)))
           /\ std_times_approx' =
                  Append(std_times_approx, Std(ToFloats(time_approx)))
           /\ average_speedups' = Append(average_speedups, Mean(speedup))
           /\ std_speedups' = std_speedups
    /\ UNCHANGED <<now, all_data, X, estimators, step, iter, locals, lists,
                   gpr, fig, plotted, calls>>

\* the means and deviations of one index size, appended to the metric lists
CollectMetrics ==
    /\ Goto("collect", "loop")
    /\ LET speedup == ArrayDivide(time_exact, time_approx)
       IN  /\ accuracies' = Append(accuracies, Mean(accuracy))
           /\ std_accuracies' = Append(std_accuracies, Std(accuracy))
           /\ average_times_exact' =
                  Append(average_times_exact, Mean(ToFloats(time_exact)))
           /\ average_times_approx' =
                  Append(average_times_approx, Mean(ToFloats(time_approx)))
           /\ std_times_approx' =
                  Append(std_times_approx, Std(ToFloats(time_approx)))
           /\ average_speedups' = Append(average_speedups, Mean(speedup))
           /\ std_speedups' = Append(std_speedups, Std(speedup))
    /\ UNCHANGED <<now, all_data, X, estimators, step, iter, locals, lists,
                   gpr, fig, plotted, calls>>


\* variant: the first figure is sent before it is built
LoopExit_SkipBuild ==
    /\ step = n_steps
    /\ pc = "loop"
    /\ pc' = "plot1_iplot"
    /\ UNCHANGED <<notebook, failedAt, execCount, now, all_data, X,
                   estimators, step, iter, locals, lists, metrics, gpr, fig,
                   plotted, calls>>

\* the loop over n_samples_values is exhausted
LoopExit ==
    /\ step = n_steps
    /\ pc = "loop"
    /\ pc' = "plot1_build"
    /\ UNCHANGED <<notebook, failedAt, execCount, now, all_data, X,
                   estimators, step, iter, locals, lists, metrics, gpr, fig,
                   plotted, calls>>

\* the traces and the figure of the three plot cells
LshfFigure(cell) ==
    CASE cell = 1 ->
           <<Scatter("LSHForest", n_samples_values, average_times_approx,
                     std_times_approx),
             Scatter("NearestNeighbors(algorithm='brute', metric='cosine')",
                     n_samples_values, average_times_exact, <<>>)>>
      [] cell = 2 ->
           <<Scatter("", n_samples_values, average_speedups, std_speedups)>>
      [] cell = 3 ->
           <<Scatter("", n_samples_values, accuracies, std_accuracies)>>

BuildLabel(cell) == CASE cell = 1 -> "plot1_build" [] cell = 2 -> "plot2_build"
                      [] cell = 3 -> "plot3_build"
IplotLabel(cell) == CASE cell = 1 -> "plot1_iplot" [] cell = 2 -> "plot2_iplot"
                      [] cell = 3 -> "plot3_iplot"
AfterIplot(cell) == CASE cell = 1 -> "plot2_build" [] cell = 2 -> "plot3_build"
                      [] cell = 3 -> "publish"

\* p1 = go.Scatter(...); ...; fig = go.Figure(data=[...], layout=layout)
PlotBuild(cell) ==
    /\ Goto(BuildLabel(cell), IplotLabel(cell))
    /\ fig' = LshfFigure(cell)
    /\ UNCHANGED <<now, all_data, X, estimators, step, iter, locals, lists,
                   metrics, gpr, plotted, calls>>

\* py.iplot(fig)
PlotIplot(cell) ==
    /\ Goto(IplotLabel(cell), AfterIplot(cell))
    /\ plotted' = Append(plotted, fig)
    /\ UNCHANGED <<now, all_data, X, estimators, step, iter, locals, lists,
                   metrics, gpr, fig, calls>>

\* publisher.publish(...)
Publish ==
    /\ \/ Goto("publish", "done")
       \/ Goto("gpr_publish", "done")
    /\ UNCHANGED <<now, all_data, X, estimators, step, iter, locals, lists,
                   metrics, gpr, fig, plotted, calls>>

\* ======== Gaussian Processes Regression ========

GprDataLabel(case) == IF case = 1 THEN "gpr_data1" ELSE "gpr_data2"
GprFitLabel(case) == IF case = 1 THEN "gpr_fit1" ELSE "gpr_fit2"
GprPredictLabel(case) == IF case = 1 THEN "gpr_predict1" ELSE "gpr_predict2"
GprBuildLabel(case) == IF case = 1 THEN "gpr_build1" ELSE "gpr_build2"
GprIplotLabel(case) == IF case = 1 THEN "gpr_iplot1" ELSE "gpr_iplot2"
GprAfterIplot(case) == IF case = 1 THEN "gpr_data2" ELSE "gpr_publish"

\* X, the observations y and (noiseless cell only) the mesh x
GprData(case) ==
    /\ Goto(GprDataLabel(case), GprFitLabel(case))
    /\ X' = IF case = 1 THEN XNoiseless ELSE XNoisy
    /\ y' = [i \in 1..Len(X') |->
                IF case = 1 THEN F(X'[i][1]) ELSE Noisy(F(X'[i][1]))]
    /\ x' = IF case = 1 THEN Mesh ELSE x
    /\ UNCHANGED <<now, all_data, estimators, step, iter, locals, lists,
                   metrics, gp, y_pred, sigma, fig, plotted, calls>>

\* gp = GaussianProcessRegressor(...); gp.fit(X, y)
GprFit(case) ==
    /\ Goto(GprFitLabel(case), GprPredictLabel(case))
    /\ gp' = Fit(X)
    /\ UNCHANGED <<now, all_data, X, estimators, step, iter, locals, lists,
                   metrics, x, y, y_pred, sigma, fig, plotted, calls>>

\* y_pred, sigma = gp.predict(x, return_std=True)
GprPredict(case) ==
    /\ Goto(GprPredictLabel(case), GprBuildLabel(case))
    /\ y_pred' \in Arrays(Len(x), PredVals)
    /\ sigma' \in Arrays(Len(x), SigmaVals)
    /\ UNCHANGED <<now, all_data, X, estimators, step, iter, locals, lists,
                   metrics, x, y, gp, fig, plotted, calls>>

\* p1 .. p4, data = [p3, p4, p1, p2], fig = go.Figure(data=data, ...)
GprBuild(case) ==
    /\ Goto(GprBuildLabel(case), GprIplotLabel(case))
    /\ fig' = GprFigure(x, X, y, y_pred, sigma, case = 2)
    /\ UNCHANGED <<now, all_data, X, estimators, step, iter, locals, lists,
                   metrics, gpr, plotted, calls>>

\* py.iplot(fig)
GprIplot(case) ==
    /\ Goto(GprIplotLabel(case), GprAfterIplot(case))
    /\ plotted' = Append(plotted, fig)
    /\ UNCHANGED <<now, all_data, X, estimators, step, iter, locals, lists,
                   metrics, gpr, fig, calls>>

\* ======== failures ========


\* variant: the failure is caught and the call is made again
Raise_Retry(at) ==
    /\ pc = at
    /\ pc' = at
    /\ failedAt' = at
    /\ UNCHANGED <<notebook, execCount, now, all_data, X, estimators, step,
                   iter, locals, lists, metrics, gpr, fig, plotted, calls>>

\* the library call at the current statement raises: nothing catches it, the
\* cell is abandoned and the run stops
Raise(at) ==
    /\ pc = at
    /\ pc' = "failed"
    /\ failedAt' = at
    /\ UNCHANGED <<notebook, execCount, now, all_data, X, estimators, step,
                   iter, locals, lists, metrics, gpr, fig, plotted, calls>>

Raises == \E at \in CallSites : Raise(at)

Next ==
    \/ Generate
    \/ LoopNext
    \/ FitLshf
    \/ FitNbrs
    \/ PickQuery
    \/ ReadT0Exact
    \/ QueryExact
    \/ AppendExact
    \/ ReadT0Approx
    \/ QueryApprox
    \/ AppendApprox
    \/ AppendAccuracy
    \/ InnerExit
    \/ CollectMetrics
    \/ LoopExit
    \/ \E cell \in 1..3 : PlotBuild(cell)
    \/ \E cell \in 1..3 : PlotIplot(cell)
    \/ Publish
    \/ \E case \in 1..2 : GprData(case)
    \/ \E case \in 1..2 : GprFit(case)
    \/ \E case \in 1..2 : GprPredict(case)
    \/ \E case \in 1..2 : GprBuild(case)
    \/ \E case \in 1..2 : GprIplot(case)
    \/ Raises

Spec == Init /\ [][Next]_vars

\* ======== properties ========

Last(s) == s[Len(s)]

\* the statement at label s completes in this step
Ran(s) == execCount'[s] = execCount[s] + 1

PlotLabels == {"plot1_build", "plot1_iplot", "plot2_build", "plot2_iplot",
               "plot3_build", "plot3_iplot"}

\* C1: the pipeline steps happen in the stated order. A fit runs only on a
\* generated dataset, a kneighbors/predict call runs only on an estimator whose
\* fit has completed, the traces of a figure are built only when every
\* kneighbors/predict call that feeds them has completed, and py.iplot is
\* handed a figure that has been constructed in the cell's build step.
C1_PipelineOrder ==
    [][ /\ (Ran("fit_lshf") \/ Ran("fit_nbrs")) =>
               /\ all_data = make_blobs
               /\ X # <<>>
        /\ Ran("query_exact") => nbrs.fitted /\ execCount["fit_nbrs"] = step
        /\ Ran("query_approx") => lshf.fitted /\ execCount["fit_lshf"] = step
        /\ \A cell \in 1..3 :
              /\ Ran(BuildLabel(cell)) =>
                     /\ execCount["query_exact"] = n_steps * n_iter
                     /\ execCount["query_approx"] = n_steps * n_iter
                     /\ execCount["collect"] = n_steps
              /\ Ran(IplotLabel(cell)) =>
                     /\ execCount[BuildLabel(cell)] = 1
                     /\ fig = LshfFigure(cell)
        /\ \A case \in 1..2 :
              /\ Ran(GprFitLabel(case)) =>
                     /\ execCount[GprDataLabel(case)] = 1
                     /\ X # <<>> /\ Len(y) = Len(X)
              /\ Ran(GprPredictLabel(case)) =>
                     /\ execCount[GprFitLabel(case)] = 1
                     /\ gp = Fit(X)
              /\ Ran(GprBuildLabel(case)) =>
                     /\ execCount[GprPredictLabel(case)] = 1
                     /\ Len(y_pred) = Len(x) /\ Len(sigma) = Len(x)
              /\ Ran(GprIplotLabel(case)) =>
                     /\ execCount[GprBuildLabel(case)] = 1
                     /\ fig = GprFigure(x, X, y, y_pred, sigma, case = 2)
      ]_vars

C1_Witness ==
    /\ pc = "done"
    /\ notebook = "lshf"
    /\ Len(plotted) = 3

\* C2: in both Gaussian process figures the trace named '95% confidence
\* interval' has as many y values as x values and holds, for every mesh point,
\* the lower bound y_pred - 1.96 sigma and the upper bound y_pred + 1.96 sigma.
C2_ConfidenceBand ==
    (notebook = "gpr" /\ pc \in {"gpr_iplot1", "gpr_iplot2"}) =>
        LET p4 == fig[2]
            n == Len(x)
        IN  /\ p4.name = "95% confidence interval"
            /\ Len(p4.x) = 2 * n
            /\ Len(p4.y) = Len(p4.x)
            /\ \A i \in 1..n :
                  /\ p4.y[i] = RSub(y_pred[i], RMul(<<49, 25>>, sigma[i]))
                  /\ p4.y[2 * n + 1 - i] =
                         RAdd(y_pred[i], RMul(<<49, 25>>, sigma[i]))

\* C3: for every index size both indexes are fitted on the same data
\* X = index_data[:n_samples], and in every iteration both are queried with
\* the one query point drawn for that iteration.
C3_SameDataSameQuery ==
    (pc \in {"append_approx", "append_accuracy"}) =>
        /\ lshf.fitted /\ nbrs.fitted
        /\ lshf.X = SubSeq(index_data, 1, n_samples_values[step])
        /\ nbrs.X = lshf.X
        /\ exactCall.X = nbrs.X
        /\ approxCall.X = lshf.X
        /\ exactCall.q = query
        /\ approxCall.q = query
        /\ query \in {queries[r] : r \in 1..n_queries}
        /\ execCount["pick_query"] = execCount["query_exact"]
        /\ execCount["pick_query"] = execCount["query_approx"]

C3_Witness ==
    /\ pc = "append_accuracy"
    /\ step = n_steps
    /\ iter = n_iter
    /\ query = queries[n_queries]

\* exact query time / approximate query time of the calls of this index size
TrueSpeedups == [i \in 1..Len(durExact) |-> RDiv(R(durExact[i]), R(durApprox[i]))]

\* C4: the speedup plotted for an index size is the mean, over the n_iter
\* iterations of that size, of exact query time / approximate query time of
\* the same iteration; a per-iteration speedup is above 1 exactly when the
\* approximate query took less time than the exact query. The list changes
\* only when an index size is collected, and the second plot charts the list.
C4_SpeedupIsMeanOfRatios ==
    [][ /\ Ran("collect") =>
               /\ Len(durExact) = n_iter
               /\ Len(durApprox) = n_iter
               /\ average_speedups' =
                      Append(average_speedups, Mean(TrueSpeedups))
               /\ \A i \in 1..n_iter :
                      RLess(R(1), ArrayDivide(time_exact, time_approx)[i])
                          <=> durApprox[i] < durExact[i]
        /\ average_speedups' # average_speedups => Ran("collect")
        /\ Ran("plot2_build") =>
               /\ fig'[1].y = average_speedups
               /\ fig'[1].x = n_samples_values
      ]_vars

C4_Witness ==
    /\ pc = "plot2_iplot"
    /\ fig[1].y = average_speedups
    /\ \E i \in 1..n_steps : RLess(R(1), average_speedups[i])
    /\ \E i \in 1..n_steps : RLess(average_speedups[i], R(1))

InUnit(r) == RLeq(R(0), r) /\ RLeq(r, R(1))

LoopCallSites == {"fit_lshf", "fit_nbrs", "query_exact", "query_approx"}

\* C6: a failing library call is not caught: the failure is that of the
\* call being made, nothing runs after it (no retry, no later statement), no
\* state is changed by it, and a failure inside the measurement loop leaves
\* the metric lists without an entry for the index size being measured.
C6_NoRecovery ==
    [][ /\ failedAt = "none"
        /\ pc # "failed"
        /\ pc' = "failed" =>
               /\ pc \in CallSites
               /\ failedAt' = pc
               /\ execCount' = execCount
               /\ metrics' = metrics
               /\ plotted' = plotted /\ fig' = fig
               /\ pc \in LoopCallSites =>
                      \A k \in 1..7 : Len(metrics[k]) = step - 1
      ]_vars

C6_Witness ==
    /\ pc = "failed"
    /\ failedAt = "query_approx"
    /\ step = n_steps
    /\ iter = n_iter
    /\ Len(accuracies) = n_steps - 1

AfterLoop == PlotLabels \cup {"publish", "done"}

\* C7: the seven metric lists have the same length at the start of every
\* outer-loop iteration, the number of index sizes completed so far; after the
\* loop each has n_steps entries, the k-th collected while X held the k-th
\* index size; every trace of the three plots has as many y as x values (and
\* as many error values, where it has error bars).
C7_MetricShapes ==
    notebook = "lshf" =>
        /\ pc = "loop" => \A k \in 1..7 : Len(metrics[k]) = step
        /\ pc = "collect" =>
               /\ \A k \in 1..7 : Len(metrics[k]) = step - 1
               /\ Len(X) = n_samples_values[Len(accuracies) + 1]
        /\ pc \in AfterLoop =>
               \A k \in 1..7 : Len(metrics[k]) = Len(n_samples_values)
        /\ Len(n_samples_values) = n_steps
        /\ \A t \in 1..Len(fig) :
               /\ Len(fig[t].x) = Len(fig[t].y)
               /\ fig[t].arrayminus # <<>> =>
                      Len(fig[t].arrayminus) = Len(fig[t].y)
        /\ pc \in {"plot1_iplot", "plot2_iplot", "plot3_iplot"} => fig # <<>>

C7_Witness ==
    /\ notebook = "lshf"
    /\ pc = "done"
    /\ Len(plotted) = 3
    /\ Len(std_speedups) = n_steps

LoopStmts == {"loop", "fit_lshf", "fit_nbrs", "pick_query", "t0_exact",
              "query_exact", "append_exact", "t0_approx", "query_approx",
              "append_approx", "append_accuracy", "collect"}
OuterStmts == {"loop", "fit_lshf", "fit_nbrs", "collect"}

ModelCalls == {"fit_lshf", "fit_nbrs", "query_exact", "query_approx",
               "gpr_fit1", "gpr_predict1", "gpr_fit2", "gpr_predict2"}

\* the statements that read the clock
ClockReads == {"t0_exact", "append_exact", "t0_approx", "append_approx"}

\* C9 as stated: in each notebook every charted fit/predict/kneighbors call is
\* bracketed by clock reads and its elapsed time is recorded.
C9_EveryModelCallTimed ==
    [][ \A c \in ModelCalls :
            Ran(c) =>
                /\ t0 = now
                /\ \E r \in ClockReads : execCount[r] > 0
      ]_vars

\* C9 amended: only the kneighbors calls of the nearest-neighbors notebook are
\* timed: the clock is read into t0 right before each, read again right after
\* it, and the difference, the duration of that call, is appended to the
\* call's time list; the Gaussian process notebook never reads the clock.
C9_QueriesTimed ==
    [][ /\ Ran("query_exact") => t0 = now /\ execCount["t0_exact"] = execCount["query_exact"] + 1
        /\ Ran("query_approx") => t0 = now /\ execCount["t0_approx"] = execCount["query_approx"] + 1
        /\ Ran("append_exact") =>
               /\ now = exactCall.end
               /\ time_exact' = Append(time_exact, exactCall.end - exactCall.start)
        /\ Ran("append_approx") =>
               /\ now = approxCall.end
               /\ time_approx' = Append(time_approx, approxCall.end - approxCall.start)
        /\ notebook = "gpr" =>
               /\ \A r \in ClockReads : execCount'[r] = 0
               /\ time_exact' = <<>> /\ time_approx' = <<>>
      ]_vars

C9_Witness ==
    /\ pc = "append_accuracy"
    /\ Len(time_exact) = n_iter
    /\ Len(time_approx) = n_iter
    /\ Last(time_approx) = MaxDur

\* C10: each recorded query time covers exactly one kneighbors call: the
\* exact query is timed first, t0 is read again before the approximate query,
\* the two timed intervals do not overlap, and the approximate time includes
\* neither the exact query nor the accuracy computation.
C10_DisjointIntervals ==
    /\ \A i \in 1..Len(time_exact) : time_exact[i] = durExact[i]
    /\ \A i \in 1..Len(time_approx) : time_approx[i] = durApprox[i]
    /\ pc \in {"append_approx", "append_accuracy"} =>
           /\ exactCall.start < exactCall.end
           /\ exactCall.end <= approxCall.start
           /\ approxCall.start < approxCall.end
           /\ t0 = approxCall.start
           /\ Last(time_exact) = exactCall.end - exactCall.start
    /\ pc = "append_accuracy" =>
           /\ Last(time_approx) = approxCall.end - approxCall.start
           /\ now = approxCall.end

C10_Witness ==
    /\ pc = "append_accuracy"
    /\ iter = n_iter
    /\ Last(time_exact) = MaxDur
    /\ Last(time_approx) = 1
    /\ time_approx[1] = MaxDur

====
